---- MODULE Spec2Model ----
(***************************************************************************)
(* Model of facenet/app.py: a Flask server that keeps an identity store    *)
(* (data/embeddings.json) and one admin credential (data/admin.json) as    *)
(* JSON files, and serves /enroll, /recognize, /api/verify and             *)
(* /api/update-password from concurrent request threads.                   *)
(*                                                                         *)
(* Four specifications share the state:                                    *)
(*   Spec       the identity store under concurrent enroll / recognize     *)
(*              requests, process crashes and restarts;                    *)
(*   SpecCred   the credential file under concurrent verify / rotate       *)
(*              requests, process crashes and restarts;                    *)
(*   SpecMatch  the nearest-match scan of recognize as a pure function of  *)
(*              a store and a query vector;                                *)
(*   SpecLoad   the requests of a running server whose embeddings file is  *)
(*              there or has been removed since the start.                 *)
(*                                                                         *)
(* Numbers: an embedding coordinate c stands for the real c / Scale, and   *)
(* distances are kept squared, in units of 1 / Scale^2, so the threshold   *)
(* 1.0 is Scale * Scale and comparisons of distances are exact.            *)
(***************************************************************************)
EXTENDS Integers, Sequences, FiniteSets, TLC

VARIABLES proc, dataDir, embFile, adminFile, thr, crashes, nreq,
          m_db, m_emb, m_res

vars == <<proc, dataDir, embFile, adminFile, thr, crashes, nreq, m_db, m_emb, m_res>>

\* ------------------------------------------------------------------ bounds

\* Fixed-point resolution of a coordinate: c stands for c / Scale.
Scale == 2
\* Largest coordinate of a vector drawn in SpecMatch.
MaxCoord == 2
\* Most vectors a store drawn in SpecMatch holds, over all its identities.
MaxStored == 2
\* Most crashes of the server process in one behaviour.
MaxCrashes == 1
\* Most requests served in one behaviour.
MaxRequests == 3

\* ------------------------------------------------------------------ values

Threads == {"t1", "t2"}

\* Names a request may carry; "" is the empty name.
Names == {"Alice", "Bob", ""}

\* Embeddings the external embedder hands to the handlers in Spec.
v0 == <<0, 0>>
v1 == <<2, 0>>
w0 == <<0, 0, 0>>

\* The embeddings of the faces of one /enroll image (never empty: line 80).
FaceLists == {<<v0>>, <<v1>>, <<v1, v0>>, <<w0>>}

\* The embeddings of the faces of one /recognize image.
QueryLists == {<<v0>>, <<v1, w0>>}

\* Passwords a request may carry; "" is data.get's default.
Passwords == {"admin123", "s3cret", ""}

\* Salts bcrypt.gensalt() may draw.
Salts == {"s1", "s2"}

\* ------------------------------------------------------------------ files

\* A file is absent, ok (holds a complete JSON document, val), empty (just
\* truncated by open(path, "w"), nothing written yet) or garbled (bytes of two
\* writers mixed). json.load raises on an empty and on a garbled file.
Absent(none) == [st |-> "absent", val |-> none]
Empty(none) == [st |-> "empty", val |-> none]
Garbled(none) == [st |-> "garbled", val |-> none]
Ok(v) == [st |-> "ok", val |-> v]

Readable(f) == f.st = "ok"

\* The mapping json.load returns is a dict in file order: a sequence of
\* [name, embs] entries with distinct names.
EmptyDb == <<>>

HasKey(db, n) == \E i \in 1..Len(db) : db[i].name = n

Get(db, n) == LET i == CHOOSE j \in 1..Len(db) : db[j].name = n IN db[i].embs

Keys(db) == {db[i].name : i \in 1..Len(db)}

\* db[name] = embeddings on a Python dict: an existing key keeps its place and
\* gets the new value, a new key goes last.
DictSet(db, n, e) ==
    IF HasKey(db, n)
    THEN [i \in 1..Len(db) |-> IF db[i].name = n
                               THEN [name |-> n, embs |-> e]
                               ELSE db[i]]
    ELSE Append(db, [name |-> n, embs |-> e])

\* ------------------------------------------------------------------ bcrypt

NoHash == [salt |-> "", pw |-> ""]

\* bcrypt.hashpw(password, salt): the salt is embedded in the hash.
hashpw(pw, salt) == [salt |-> salt, pw |-> pw]

\* bcrypt.checkpw(password, hashed): rehash with the salt of the stored hash.
checkpw(pw, hashed) == hashpw(pw, hashed.salt) = hashed

\* ------------------------------------------------------------------ matching

\* The stored vectors in the order of the two loops of recognize: identities
\* in dict order, and within one identity its vectors in list order.
RECURSIVE Flatten(_)
Flatten(db) ==
    IF db = <<>> THEN <<>>
    ELSE LET h == Head(db)
         IN [i \in 1..Len(h.embs) |-> [name |-> h.name, vec |-> h.embs[i]]]
            \o Flatten(Tail(db))

RECURSIVE SumSq(_, _, _)
SumSq(a, b, i) ==
    IF i > Len(a) THEN 0
    ELSE (a[i] - b[i]) * (a[i] - b[i]) + SumSq(a, b, i + 1)

\* np.linalg.norm(emb - np.array(stored_emb)), squared, in units of 1/Scale^2.
SqDist(a, b) == SumSq(a, b, 1)

\* emb - np.array(stored_emb) raises ValueError when the shapes differ (no
\* vector here has length 1, the one case numpy would broadcast).
ShapeError(db, emb) ==
    \E i \in 1..Len(Flatten(db)) : Len(Flatten(db)[i].vec) # Len(emb)

\* The literal 1.0 of lines 122 and 127, squared, in units of 1/Scale^2.
Threshold == Scale * Scale

\* Line 127 with both comparisons non-strict.
Closer_NonStrictThreshold(dist, min_dist) == dist <= min_dist /\ dist <= Threshold

\* Line 127 with the running minimum replaced on a tie.
Closer_LastWinsTies(dist, min_dist) == dist <= min_dist /\ dist < Threshold

\* Line 127: dist < min_dist and dist < 1.0.
Closer(dist, min_dist) == dist < min_dist /\ dist < Threshold

\* Lines 124-129: the scan, from the running (min_dist, match_name).
RECURSIVE Scan(_, _, _, _)
Scan(pairs, emb, min_dist, match_name) ==
    IF pairs = <<>> THEN [err |-> FALSE, name |-> match_name, min_dist |-> min_dist]
    ELSE LET dist == SqDist(emb, Head(pairs).vec)
         IN IF Closer(dist, min_dist)
            THEN Scan(Tail(pairs), emb, dist, Head(pairs).name)
            ELSE Scan(Tail(pairs), emb, min_dist, match_name)

MatchError == [err |-> TRUE, name |-> "", min_dist |-> 0]

\* Lines 119-131 for one face: match_name and the final min_dist, or the
\* exception that ends the request.
Match(db, emb) ==
    IF ShapeError(db, emb) THEN MatchError
    ELSE Scan(Flatten(db), emb, Threshold, "Unknown")

\* ------------------------------------------------------------------ process

\* A request thread: where it is in its handler (pc), which handler (kind),
\* the handler's locals, and the HTTP status it answered with (resp, 0: none).
IdleThread ==
    [pc |-> "idle", kind |-> "none", name |-> "", faces |-> <<>>, db |-> <<>>,
     old |-> "", new |-> "", names |-> <<>>, resp |-> 0]

Done(kind, resp) == [IdleThread EXCEPT !.pc = "done", !.kind = kind, !.resp = resp]

\* No result of the scan yet (SpecMatch).
NoResult == [done |-> FALSE, err |-> FALSE, name |-> "", min_dist |-> 0]

InitServer ==
    /\ proc = "down"
    /\ dataDir \in BOOLEAN
    /\ embFile = Absent(EmptyDb)
    /\ adminFile = Absent(NoHash)
    /\ thr = [t \in Threads |-> IdleThread]
    /\ crashes = 0
    /\ nreq = 0

NoMatch ==
    /\ m_db = EmptyDb
    /\ m_emb = <<>>
    /\ m_res = NoResult

Init == InitServer /\ NoMatch

\* Lines 16-20 without the data directory: open(ADMIN_PATH, "w") raises
\* FileNotFoundError (the directory is made only at line 50), the import of
\* the module fails and the server never comes up.
StartupFail ==
    /\ proc = "down"
    /\ ~dataDir
    /\ proc' = "failed"
    /\ UNCHANGED <<dataDir, embFile, adminFile, thr, crashes, nreq, m_db, m_emb, m_res>>

\* Lines 13-55 and 166-167: the module-level code of a start of the server.
Startup ==
    /\ proc = "down"
    /\ dataDir
    /\ \E salt \in Salts :
         adminFile' = IF adminFile.st = "absent"
                      THEN Ok(hashpw("admin123", salt))
                      ELSE adminFile
    /\ embFile' = IF embFile.st = "absent" THEN Ok(EmptyDb) ELSE embFile
    /\ proc' = "up"
    /\ UNCHANGED <<dataDir, thr, crashes, nreq, m_db, m_emb, m_res>>

\* The process is killed: its threads are gone, the files stay as they are.
Crash ==
    /\ proc = "up"
    /\ crashes < MaxCrashes
    /\ crashes' = crashes + 1
    /\ proc' = "down"
    /\ thr' = [t \in Threads |-> IdleThread]
    /\ UNCHANGED <<dataDir, embFile, adminFile, nreq, m_db, m_emb, m_res>>

\* A thread takes the next request (app.run serves each request on a thread).
Accept(t) ==
    /\ proc = "up"
    /\ thr[t].pc \in {"idle", "done"}
    /\ nreq < MaxRequests
    /\ nreq' = nreq + 1

\* ------------------------------------------------------------------ /enroll

\* Lines 60-62 on a file json.load cannot parse: the exception.
load_embeddings_raises == ~Readable(embFile)

\* Lines 79-81: no face in the image.
EnrollNoFace(t) ==
    /\ Accept(t)
    /\ thr' = [thr EXCEPT ![t] = Done("enroll", 400)]
    /\ UNCHANGED <<proc, dataDir, embFile, adminFile, crashes, m_db, m_emb, m_res>>

\* Lines 74-91: the request is read, the faces embedded, the store loaded and
\* db[name] = embeddings applied to the loaded mapping. A load that raises is
\* answered 500 by the handler's except clause.
EnrollLoad(t) ==
    /\ Accept(t)
    /\ \E n \in Names, f \in FaceLists :
         thr' = [thr EXCEPT ![t] =
                   IF load_embeddings_raises
                   THEN [Done("enroll", 500) EXCEPT !.name = n, !.faces = f]
                   ELSE [IdleThread EXCEPT !.pc = "loaded", !.kind = "enroll",
                                           !.name = n, !.faces = f,
                                           !.db = DictSet(embFile.val, n, f)]]
    /\ UNCHANGED <<proc, dataDir, embFile, adminFile, crashes, m_db, m_emb, m_res>>

\* Line 65: open(DATA_PATH, "w") truncates the file.
EnrollOpen(t) ==
    /\ proc = "up"
    /\ thr[t].kind = "enroll"
    /\ thr[t].pc = "loaded"
    /\ embFile' = Empty(EmptyDb)
    /\ thr' = [thr EXCEPT ![t].pc = "opened"]
    /\ UNCHANGED <<proc, dataDir, adminFile, crashes, nreq, m_db, m_emb, m_res>>

\* What the file holds after json.dump and close write this thread's document
\* from offset 0: the document; or, when another writer's bytes are already in
\* the file and reach beyond the document's end, a mix of the two.
save_embeddings_outcomes(data) ==
    {Ok(data)} \cup (IF embFile.st = "empty" THEN {} ELSE {Garbled(EmptyDb)})

\* Lines 66 and 94: the document is written and the request acknowledged.
EnrollWrite(t) ==
    /\ proc = "up"
    /\ thr[t].kind = "enroll"
    /\ thr[t].pc = "opened"
    /\ embFile' \in save_embeddings_outcomes(thr[t].db)
    /\ thr' = [thr EXCEPT ![t].pc = "done", ![t].resp = 200, ![t].db = EmptyDb]
    /\ UNCHANGED <<proc, dataDir, adminFile, crashes, nreq, m_db, m_emb, m_res>>

\* ------------------------------------------------------------------ /recognize

\* Lines 109-111: no face in the image.
RecognizeNoFace(t) ==
    /\ Accept(t)
    /\ thr' = [thr EXCEPT ![t] = Done("recognize", 400)]
    /\ UNCHANGED <<proc, dataDir, embFile, adminFile, crashes, m_db, m_emb, m_res>>

\* Lines 113-133 for the faces q of one image: the matched names, in order.
recognize_names(db, q) == [i \in 1..Len(q) |-> Match(db, q[i]).name]

recognize_raises(db, q) == \E i \in 1..Len(q) : Match(db, q[i]).err

\* Lines 105-136 with the loaded mapping written back through
\* save_embeddings' open(DATA_PATH, "w") after the scan.
Recognize_SavesBack(t) ==
    /\ Accept(t)
    /\ \E q \in QueryLists :
         thr' = [thr EXCEPT ![t] =
                   IF load_embeddings_raises \/ recognize_raises(embFile.val, q)
                   THEN [Done("recognize", 500) EXCEPT !.faces = q]
                   ELSE [Done("recognize", 200) EXCEPT
                           !.faces = q, !.names = recognize_names(embFile.val, q)]]
    /\ embFile' = IF load_embeddings_raises THEN embFile ELSE Empty(EmptyDb)
    /\ UNCHANGED <<proc, dataDir, adminFile, crashes, m_db, m_emb, m_res>>

\* Lines 105-136: the store is loaded and every face matched against it; an
\* exception (the load's, or the scan's) is answered 500.
Recognize(t) ==
    /\ Accept(t)
    /\ \E q \in QueryLists :
         thr' = [thr EXCEPT ![t] =
                   IF load_embeddings_raises \/ recognize_raises(embFile.val, q)
                   THEN [Done("recognize", 500) EXCEPT !.faces = q]
                   ELSE [Done("recognize", 200) EXCEPT
                           !.faces = q, !.names = recognize_names(embFile.val, q)]]
    /\ UNCHANGED <<proc, dataDir, embFile, adminFile, crashes, m_db, m_emb, m_res>>

NextStore ==
    \/ StartupFail
    \/ Startup
    \/ Crash
    \/ \E t \in Threads : EnrollNoFace(t)
    \/ \E t \in Threads : EnrollLoad(t)
    \/ \E t \in Threads : EnrollOpen(t)
    \/ \E t \in Threads : EnrollWrite(t)
    \/ \E t \in Threads : RecognizeNoFace(t)
    \/ \E t \in Threads : Recognize(t)

Spec == Init /\ [][NextStore]_vars

\* ------------------------------------------------------------------ credential

\* Lines 22-24 on a file json.load cannot parse: the exception (no handler
\* catches it: Flask answers 500).
get_admin_password_raises == ~Readable(adminFile)

\* Lines 143-147: the status verify_password answers with.
verify_status(input_pw, stored_hashed_pw) ==
    IF checkpw(input_pw, stored_hashed_pw) THEN 200 ELSE 401

\* Lines 139-147: one read of the stored hash and the comparison.
Verify(t) ==
    /\ Accept(t)
    /\ \E p \in Passwords :
         thr' = [thr EXCEPT ![t] =
                   [Done("verify", IF get_admin_password_raises THEN 500
                                   ELSE verify_status(p, adminFile.val))
                      EXCEPT !.old = p]]
    /\ UNCHANGED <<proc, dataDir, embFile, adminFile, crashes, m_db, m_emb, m_res>>

\* Line 157 with the comparison dropped.
old_password_accepted_Always(old_pw, stored_hashed_pw) == TRUE

\* Line 157: whether update_password goes on to set_admin_password.
old_password_accepted(old_pw, stored_hashed_pw) == checkpw(old_pw, stored_hashed_pw)

\* Lines 151-157 and 160-161: the stored hash is read and the old password
\* compared with it; a mismatch is answered 401, a match goes on to line 158.
UpdateRead(t) ==
    /\ Accept(t)
    /\ \E o \in Passwords, n \in Passwords :
         thr' = [thr EXCEPT ![t] =
                   IF get_admin_password_raises
                   THEN [Done("update", 500) EXCEPT !.old = o, !.new = n]
                   ELSE IF old_password_accepted(o, adminFile.val)
                   THEN [IdleThread EXCEPT !.pc = "checked", !.kind = "update",
                                           !.old = o, !.new = n]
                   ELSE [Done("update", 401) EXCEPT !.old = o, !.new = n]]
    /\ UNCHANGED <<proc, dataDir, embFile, adminFile, crashes, m_db, m_emb, m_res>>

\* Line 28: open(ADMIN_PATH, "w") truncates the file.
UpdateOpen(t) ==
    /\ proc = "up"
    /\ thr[t].kind = "update"
    /\ thr[t].pc = "checked"
    /\ adminFile' = Empty(NoHash)
    /\ thr' = [thr EXCEPT ![t].pc = "opened"]
    /\ UNCHANGED <<proc, dataDir, embFile, crashes, nreq, m_db, m_emb, m_res>>

\* Lines 27 and 29 hashing the default secret instead of the argument.
set_admin_password_Default(new_password, salt) == Ok(hashpw("admin123", salt))

\* Lines 27 and 29: the record set_admin_password writes (every record has the
\* same length, so a second writer's bytes replace the first's exactly).
set_admin_password(new_password, salt) == Ok(hashpw(new_password, salt))

\* Lines 29 and 159: the record is written and the rotation acknowledged.
UpdateWrite(t) ==
    /\ proc = "up"
    /\ thr[t].kind = "update"
    /\ thr[t].pc = "opened"
    /\ \E salt \in Salts : adminFile' = set_admin_password(thr[t].new, salt)
    /\ thr' = [thr EXCEPT ![t].pc = "done", ![t].resp = 200]
    /\ UNCHANGED <<proc, dataDir, embFile, crashes, nreq, m_db, m_emb, m_res>>

NextCred ==
    \/ StartupFail
    \/ Startup
    \/ Crash
    \/ \E t \in Threads : Verify(t)
    \/ \E t \in Threads : UpdateRead(t)
    \/ \E t \in Threads : UpdateOpen(t)
    \/ \E t \in Threads : UpdateWrite(t)

SpecCred == Init /\ [][NextCred]_vars

\* ------------------------------------------------------------------ the scan alone

MatchNames == {"Alice", "Bob"}

Coords == 0..MaxCoord

\* The vectors of SpecMatch: every point of the grid, and one vector of
\* another dimension.
Vecs == (Coords \X Coords) \cup {w0}

VecLists(k) == UNION {[1..n -> Vecs] : n \in 1..k}

\* The stores json.load can return: distinct names, each with at least one
\* vector, MaxStored vectors in all at most.
Stores ==
    {EmptyDb}
    \cup {<<[name |-> a, embs |-> e]>> : a \in MatchNames, e \in VecLists(MaxStored)}
    \cup {<<[name |-> a, embs |-> e1], [name |-> b, embs |-> e2]>> :
            <<a, b, e1, e2>> \in
              {x \in MatchNames \X MatchNames \X VecLists(MaxStored - 1)
                                              \X VecLists(MaxStored - 1) :
                 x[1] # x[2] /\ Len(x[3]) + Len(x[4]) <= MaxStored}}

InitMatch ==
    /\ proc = "up"
    /\ dataDir = TRUE
    /\ embFile = Absent(EmptyDb)
    /\ adminFile = Absent(NoHash)
    /\ thr = [t \in Threads |-> IdleThread]
    /\ crashes = 0
    /\ nreq = 0
    /\ m_db \in Stores
    /\ m_emb \in Vecs
    /\ m_res = NoResult

\* Lines 119-131 applied to the drawn store and query.
MatchStep ==
    /\ ~m_res.done
    /\ m_res' = [done |-> TRUE, err |-> Match(m_db, m_emb).err,
                 name |-> Match(m_db, m_emb).name,
                 min_dist |-> Match(m_db, m_emb).min_dist]
    /\ UNCHANGED <<proc, dataDir, embFile, adminFile, thr, crashes, nreq, m_db, m_emb>>

SpecMatch == InitMatch /\ [][MatchStep]_vars

\* ------------------------------------------------------------------ load_embeddings alone

\* A running server at a request: the start is over, and the embeddings file
\* that load_embeddings is about to open is there, or has been removed since.
InitLoad ==
    /\ proc = "up"
    /\ dataDir = TRUE
    /\ embFile \in {Absent(EmptyDb), Ok(EmptyDb)}
    /\ adminFile = Ok(hashpw("admin123", "s1"))
    /\ thr = [t \in Threads |-> IdleThread]
    /\ crashes = 0
    /\ nreq = 0
    /\ NoMatch

\* The handlers that call load_embeddings, and the save that follows in enroll.
NextLoad ==
    \/ \E t \in Threads : EnrollLoad(t)
    \/ \E t \in Threads : EnrollOpen(t)
    \/ \E t \in Threads : EnrollWrite(t)
    \/ \E t \in Threads : Recognize(t)

SpecLoad == InitLoad /\ [][NextLoad]_vars

\* ------------------------------------------------------------------ claims

\* An enroll request that was acknowledged as successful.
Acked(t) == thr[t].kind = "enroll" /\ thr[t].pc = "done" /\ thr[t].resp = 200

\* C1: enrollment appends and never replaces: when a name that already holds
\* k >= 1 vectors is enrolled with m >= 1 new vectors, the mapping the request
\* goes on to save holds, under that name, the k loaded vectors in their order
\* followed by the m new ones.
C1_EnrollAppends ==
    [][\A t \in Threads :
         (EnrollLoad(t) /\ thr'[t].pc = "loaded" /\ HasKey(embFile.val, thr'[t].name))
         => Get(thr'[t].db, thr'[t].name)
              = Get(embFile.val, thr'[t].name) \o thr'[t].faces]_vars

\* C2: no update is lost: once two enroll requests for different names have
\* both been acknowledged, the persisted mapping (when it can be read at all)
\* holds both names.
C2_NoLostUpdate ==
    \A t \in Threads, u \in Threads :
      (Acked(t) /\ Acked(u) /\ thr[t].name # thr[u].name /\ Readable(embFile))
      => /\ HasKey(embFile.val, thr[t].name)
         /\ HasKey(embFile.val, thr[u].name)

\* C3: a rejected rotation has no side effects: an update_password whose old
\* candidate does not verify against the stored credential answers 401, goes
\* no further, leaves the credential file as it is, and every password that
\* verified before still verifies.
C3_RejectedRotation ==
    [][\A t \in Threads :
         (UpdateRead(t) /\ Readable(adminFile)
            /\ ~checkpw(thr'[t].old, adminFile.val))
         => /\ thr'[t].pc = "done"
            /\ thr'[t].resp = 401
            /\ adminFile' = adminFile
            /\ \A p \in Passwords :
                 verify_status(p, adminFile.val) = 200
                 => verify_status(p, adminFile'.val) = 200]_vars

\* C3 witness: a rotation has been rejected and the credential is in place.
C3_Witness ==
    \E t \in Threads :
      /\ thr[t].kind = "update" /\ thr[t].pc = "done" /\ thr[t].resp = 401
      /\ Readable(adminFile)
      /\ ~checkpw(thr[t].old, adminFile.val)
      /\ ~checkpw(thr[t].new, adminFile.val)

C5_CrashLeavesCompleteFile ==
    (proc = "down" /\ crashes > 0)
    => (embFile.st # "empty" /\ adminFile.st # "empty")

\* The squared distances from emb to every stored vector.
Dists(db, emb) == {SqDist(emb, Flatten(db)[i].vec) : i \in 1..Len(Flatten(db))}

\* The least of a non-empty set of numbers.
Least(S) == CHOOSE d \in S : \A e \in S : d <= e

\* The first position, in scan order, of a stored vector nearest to emb.
FirstNearest(db, emb) ==
    CHOOSE i \in 1..Len(Flatten(db)) :
      /\ SqDist(emb, Flatten(db)[i].vec) = Least(Dists(db, emb))
      /\ \A j \in 1..(i - 1) : SqDist(emb, Flatten(db)[j].vec) # Least(Dists(db, emb))

\* C6: the threshold is strict: the scan answers "Unknown" when the store is
\* empty or no stored vector is at a distance below 1.0 (exactly 1.0 included),
\* and answers an identity owning a nearest vector when one is below 1.0.
C6_StrictThreshold ==
    (m_res.done /\ ~m_res.err)
    => LET ds == Dists(m_db, m_emb)
       IN /\ (\A d \in ds : d >= Threshold) => m_res.name = "Unknown"
          /\ (\E d \in ds : d < Threshold)
             => /\ m_res.name # "Unknown"
                /\ \E i \in 1..Len(Flatten(m_db)) :
                     /\ Flatten(m_db)[i].name = m_res.name
                     /\ SqDist(m_emb, Flatten(m_db)[i].vec) = Least(ds)

\* C6 witness: the nearest stored vector is at exactly 1.0 and the answer is
\* "Unknown".
C6_Witness ==
    /\ m_res.done /\ ~m_res.err
    /\ Dists(m_db, m_emb) # {}
    /\ Least(Dists(m_db, m_emb)) = Threshold
    /\ m_res.name = "Unknown"

\* C7: ties go to insertion order: when some stored vector is below the
\* threshold, the answer is the identity of the first vector, in the store's
\* order, at the least distance.
C7_TieBreakInsertionOrder ==
    (m_res.done /\ ~m_res.err /\ \E d \in Dists(m_db, m_emb) : d < Threshold)
    => m_res.name = Flatten(m_db)[FirstNearest(m_db, m_emb)].name

\* C7 witness: two identities each hold a vector at the same least distance,
\* below the threshold, and the first of them is the answer.
C7_Witness ==
    /\ m_res.done /\ ~m_res.err
    /\ Len(m_db) = 2
    /\ Least(Dists(m_db, m_emb)) < Threshold
    /\ SqDist(m_emb, m_db[1].embs[1]) = Least(Dists(m_db, m_emb))
    /\ SqDist(m_emb, m_db[2].embs[1]) = Least(Dists(m_db, m_emb))
    /\ m_db[1].embs[1] # m_db[2].embs[1]
    /\ m_res.name = m_db[1].name

\* C8: when nothing is closer than the threshold, the answer is "Unknown"
\* together with the least distance found over all stored vectors.
C8_UnknownWithBestDistance ==
    (m_res.done /\ ~m_res.err /\ m_res.name = "Unknown" /\ m_db # EmptyDb)
    => m_res.min_dist = Least(Dists(m_db, m_emb))

\* C9: every stored vector of every identity has the same dimension.
C9_OneDimension ==
    Readable(embFile)
    => \A i \in 1..Len(Flatten(embFile.val)), j \in 1..Len(Flatten(embFile.val)) :
         Len(Flatten(embFile.val)[i].vec) = Len(Flatten(embFile.val)[j].vec)

\* C10: every key of the persisted store is a non-empty name mapped to a
\* non-empty list of vectors.
C10_NamesNonEmpty ==
    Readable(embFile)
    => \A i \in 1..Len(embFile.val) :
         embFile.val[i].name # "" /\ embFile.val[i].embs # <<>>

\* C11: first-run default: once the first start of the server is over, and
\* before any request is served, the server is up and the credential file
\* holds a record against which the default secret "admin123" verifies;
\* this from every first-run state, the one without a data directory included.
C11_FirstRunDefault ==
    (proc # "down" /\ crashes = 0 /\ nreq = 0)
    => /\ proc = "up"
       /\ Readable(adminFile)
       /\ verify_status("admin123", adminFile.val) = 200

\* C12: load on an absent store creates an empty store and returns it: a
\* request whose load_embeddings finds no embeddings file does not fail, and
\* the file then holds the empty mapping.
C12_LoadCreatesEmptyStore ==
    [][\A t \in Threads :
         ((EnrollLoad(t) \/ Recognize(t)) /\ embFile.st = "absent")
         => (thr'[t].resp # 500 /\ embFile' = Ok(EmptyDb))]_vars

\* C13: recognition has no side effects: a recognize request, whatever it
\* answers (a match, "Unknown", no face, or an error), leaves the embeddings
\* file and the credential file as they are; stated as: no step that changes
\* either file is a step of a recognize request.
C13_RecognizeNoSideEffects ==
    [][\A t \in Threads :
         (embFile' # embFile \/ adminFile' # adminFile)
         => ~(Recognize(t) \/ RecognizeNoFace(t))]_vars

\* C13 witness: against a store that holds an identity, one recognize request
\* has answered with that identity and another has answered an error.
C13_Witness ==
    /\ Readable(embFile) /\ embFile.val # EmptyDb
    /\ \E t \in Threads, u \in Threads :
         /\ thr[t].kind = "recognize" /\ thr[t].resp = 200
         /\ \E i \in 1..Len(thr[t].names) : HasKey(embFile.val, thr[t].names[i])
         /\ thr[u].kind = "recognize" /\ thr[u].resp = 500

\* C14: a load that runs concurrently with a save never observes a partially
\* written store: while no crash has happened, the embeddings file that the
\* load_embeddings of a recognize request opens can be parsed.
C14_ReaderSeesCompleteStore ==
    [][\A t \in Threads :
         (crashes = 0 /\ ~Readable(embFile)) => ~Recognize(t)]_vars

\* C15: the check and the write of a rotation are one atomic step: when a
\* rotation opens the credential file to write its new hash, the record in
\* the file (when another writer is not just rewriting it) is one that the
\* old password it presented verifies against.
C15_RotationCheckAndWriteAtomic ==
    [][\A t \in Threads :
         (UpdateOpen(t) /\ Readable(adminFile))
         => checkpw(thr[t].old, adminFile.val)]_vars

====
